---- MODULE Spec2Model ----
(***************************************************************************)
(* The oracle submission scheduler of Chain_Lottery                        *)
(* (src/oracle/scheduler.py): OracleStateStore, OracleScheduler and the    *)
(* collaborators it calls (result feed, lottery client, state file).       *)
(*                                                                         *)
(* One scheduler process runs at a time over one state file.  A poll cycle *)
(* (_attempt_submission) is split at its await points and at the two       *)
(* system calls of Path.write_text, so that a process termination and a    *)
(* change of the feed or of the chain can fall between any two of them.    *)
(***************************************************************************)
EXTENDS Integers, Sequences, FiniteSets, TLC

\* ---------------------------------------------------------------- bounds
\* Period ids the chain runs through: 1..MaxPeriod.
MaxPeriod == 3

\* The issue ids the result feed publishes.
Issues == {"A", "B"}

\* Python's None.
None == "None"

Periods == 1..MaxPeriod

\* The numbers of a published result: 1 to MaxNumbers of them, each in
\* 1..MaxBall.
MaxNumbers == 3
MaxBall == 3

NumberSeqs == UNION { [1..n -> 1..MaxBall] : n \in 1..MaxNumbers }

\* The transaction hashes submit_result can return.
TxHashes == {"0xabc", "0x123"}

\* ------------------------------------------------------- PeriodStatus/Snapshot
\* oracle/types.py: class PeriodStatus(IntEnum).
SELLING == "SELLING"
CLOSED == "CLOSED"
RESULT_IN == "RESULT_IN"
SETTLED == "SETTLED"

PeriodStatus == {SELLING, CLOSED, RESULT_IN, SETTLED}

\* The IntEnum value of a status.
StatusValue(s) ==
    CASE s = SELLING -> 0
      [] s = CLOSED -> 1
      [] s = RESULT_IN -> 2
      [] s = SETTLED -> 3

\* oracle/types.py: PeriodSnapshot, the fields the scheduler reads.
PeriodSnapshot == [period_id : Periods, status : PeriodStatus, result_set : BOOLEAN]

NoSnapshot == [period_id |-> 0, status |-> None, result_set |-> FALSE]

\* ------------------------------------------------------------------ DrawData
\* sorted(): the list built by putting each number in its place among the
\* ones already in order.
RECURSIVE InsertSorted(_, _)
InsertSorted(x, s) ==
    IF s = << >> THEN << x >>
    ELSE IF x <= Head(s) THEN << x >> \o s
    ELSE << Head(s) >> \o InsertSorted(x, Tail(s))

RECURSIVE sorted(_)
sorted(numbers) ==
    IF numbers = << >> THEN << >>
    ELSE InsertSorted(Head(numbers), sorted(Tail(numbers)))

\* A sorted_numbers that hands the numbers on as the feed gave them.
sorted_numbers_unsorted(numbers) == numbers

\* datasource/base.py: DrawData.sorted_numbers
sorted_numbers(numbers) == sorted(numbers)

\* ------------------------------------------------------------ state file text
\* The text of the state file is a sequence of JSON tokens; a file that does
\* not exist is Missing.  A token is a record: punctuation, a string, a
\* number, the literal null, or text that is no JSON at all.
Missing == [exists |-> FALSE, text |-> << >>]

File(text) == [exists |-> TRUE, text |-> text]

P(c) == [t |-> "punct", v |-> c]
S(s) == [t |-> "string", v |-> s]
N(n) == [t |-> "number", v |-> n]
Null == [t |-> "null", v |-> "null"]
Junk == [t |-> "junk", v |-> "junk"]

\* json.dumps({"last_issue_id": issue_id})
json_dumps_payload(issue_id) ==
    << P("{"), S("last_issue_id"), P(":"), S(issue_id), P("}") >>

\* json.loads(text): the value read, or JSONDecodeError.  A value is
\* [kind, key, val]: kind in object/array/string/number/null; an object holds
\* at most one key (key = None for the empty object).
JSONDecodeError == [kind |-> "JSONDecodeError", key |-> None, val |-> Null]

IsScalar(tok) == tok.t \in {"string", "number", "null"}

json_loads(text) ==
    CASE Len(text) = 1 /\ IsScalar(text[1]) ->
           [kind |-> text[1].t, key |-> None, val |-> text[1]]
      [] Len(text) = 2 /\ text[1] = P("[") /\ text[2] = P("]") ->
           [kind |-> "array", key |-> None, val |-> Null]
      [] Len(text) = 2 /\ text[1] = P("{") /\ text[2] = P("}") ->
           [kind |-> "object", key |-> None, val |-> Null]
      [] Len(text) = 5 /\ text[1] = P("{") /\ text[2].t = "string"
           /\ text[3] = P(":") /\ IsScalar(text[4]) /\ text[5] = P("}") ->
           [kind |-> "object", key |-> text[2].v, val |-> text[4]]
      [] OTHER -> JSONDecodeError

\* The Python value of a scalar token: a str, an int (written "#n"), None.
PyValue(tok) ==
    CASE tok.t = "string" -> tok.v
      [] tok.t = "number" -> tok.v
      [] OTHER -> None

\* dict.get("last_issue_id")
dict_get_last_issue_id(data) ==
    IF data.key = "last_issue_id" THEN PyValue(data.val) ELSE None

\* OracleStateStore.load_last_issue: [raised, value].
Returned(v) == [raised |-> FALSE, value |-> v]
Raised == [raised |-> TRUE, value |-> None]

load_last_issue(f) ==
    IF ~f.exists THEN Returned(None)
    ELSE LET data == json_loads(f.text) IN
         IF data = JSONDecodeError THEN Returned(None)
         ELSE IF data.kind # "object" THEN Raised
         ELSE Returned(dict_get_last_issue_id(data))

\* A save that writes the issue id under another key.
save_last_issue_text_other_key(issue_id) ==
    << P("{"), S("last_issue"), P(":"), S(issue_id), P("}") >>

\* OracleStateStore.save_last_issue: the text write_text writes.
save_last_issue_text(issue_id) == json_dumps_payload(issue_id)

\* What a write that fails part-way leaves in the file: a proper prefix.
Prefixes(text) == { SubSeq(text, 1, k) : k \in 0..(Len(text) - 1) }

\* State files a scheduler can be started on.
InitTexts ==
    { << >>,
      << Junk >>,
      << P("["), P("]") >>,
      << S("A") >>,
      << N("#7") >>,
      << Null >>,
      << P("{"), P("}") >>,
      << P("{"), S("other"), P(":"), S("A"), P("}") >>,
      << P("{"), S("last_issue_id"), P(":"), N("#7"), P("}") >>,
      json_dumps_payload("A") }

InitFiles == { Missing } \cup { File(text) : text \in InitTexts }

\* ------------------------------------------------------------------- state
VARIABLES
    file,               \* the state file (OracleStateStore._path)
    pc,                 \* where the scheduler process is
    mode,               \* "run_once" or "run_forever": the entry point called
    submit_only_once,   \* settings.submit_only_once
    last_issue_id,      \* OracleScheduler._last_issue_id
    loaded,             \* what load_last_issue returned at construction
    feed,               \* the issue id the result feed publishes now
    chain,              \* the contract's current period
    draw,               \* _attempt_submission's local draw (its issue_id)
    period_snapshot,    \* _attempt_submission's local period_snapshot
    decision,           \* the branch the last finished cycle took
    result,             \* what the last finished cycle returned or raised
    okIssue,            \* successful submit_result calls per issue id, this process
    okPeriod,           \* successful submit_result calls per period id, this process
    lost,               \* issue submitted by a process that died before saving it
    saved,              \* issue of the last save_last_issue that returned
    published,          \* the numbers the feed publishes with each issue id
    draw_numbers,       \* _attempt_submission's local draw (its numbers)
    tx_hash,            \* _attempt_submission's local tx_hash
    submit_args,        \* the cycle's submit_result call: arguments, value returned
    outcome,            \* the SchedulerResult the last finished cycle returned
    calls,              \* the collaborator calls of the cycle, in order
    closed,             \* calls of the datasource's close(), this process
    args_once,          \* args.once: the --once flag of the service
    inst,               \* two schedulers sharing the state file
    ticket,             \* the backend's row of one ticket
    draws,              \* the backend's draw of each period
    response,           \* status code of the backend's last response
    claims,             \* claim requests answered with success
    chain_ticket        \* the ticket as the contract holds it

vars == << file, pc, mode, submit_only_once, last_issue_id, loaded, feed, chain,
           draw, period_snapshot, decision, result, okIssue, okPeriod, lost, saved,
           published, draw_numbers, tx_hash, submit_args, outcome, calls, closed,
           args_once, inst, ticket, draws, response, claims, chain_ticket >>

settingsVars == << mode, submit_only_once, args_once >>
envVars == << feed, chain, published >>
localVars == << draw, period_snapshot, draw_numbers, tx_hash >>
countVars == << okIssue, okPeriod >>
cycleVars == << submit_args, outcome, calls >>
processVars == << pc, settingsVars, last_issue_id, loaded, localVars, decision,
                  result, countVars, lost, saved, cycleVars, closed >>
schedulerVars == << file, processVars >>
backendVars == << ticket, draws, response, claims, chain_ticket >>
asideVars == << inst, backendVars >>

\* No submit_result call was made; no SchedulerResult was returned.
NoArgs == [period_id |-> 0, numbers |-> << >>, returned |-> None]
NoOutcome == [period_id |-> 0, issue_id |-> None, tx_hash |-> None]

\* SchedulerResult(period_id, issue_id, tx_hash)
SchedulerResult(p, i, tx) == [period_id |-> p, issue_id |-> i, tx_hash |-> tx]

\* Positions at which a scheduler process exists and is running.
Running == {"boot", "fetch", "get_period", "submit", "save_open", "save_write",
            "close", "sleep"}

\* Positions at which no process runs: run_once or run_forever returned or
\* raised, the constructor raised, or the process was terminated.
Stopped == {"exited", "init_failed", "crashed"}

Decisions == {"Skip-Duplicate", "Skip-NotReady", "Skip-AlreadySet", "Submit"}

\* Counters saturate at 2: "more than once" is all that is asked of them.
Bump(n) == IF n < 2 THEN n + 1 ELSE 2

\* The schedulers constructed over one state file.
Instances == {1, 2}

\* A scheduler not constructed yet.
NotConstructed == [pc |-> "boot", last_issue_id |-> None, draw |-> None,
                   period_id |-> 0, submitted |-> {}]

\* No row for the ticket; no draw stored for a period.
NoTicket == [exists |-> FALSE, id |-> "", period_id |-> 0, numbers |-> << >>,
             status |-> "", claimed |-> FALSE, matches |-> << >>,
             payout |-> << >>]
NoDraw == << >>

\* The contract holds no ticket under the token id.
NoChainTicket == [minted |-> FALSE, period_id |-> 0, numbers |-> << >>,
                  claimed |-> FALSE]

\* The other components before anything ran.
InitAside ==
    /\ inst = [i \in Instances |-> NotConstructed]
    /\ ticket = NoTicket
    /\ draws = [p \in Periods |-> NoDraw]
    /\ response = 0
    /\ claims = 0
    /\ chain_ticket = NoChainTicket

\* An entry point that looks at the --once flag alone.
run_entry_flag_only(once, only_once) ==
    IF once THEN "run_once" ELSE "run_forever"

\* service.run, lines 49-56: the scheduler method the service calls.
run_entry(once, only_once) ==
    IF once \/ only_once THEN "run_once" ELSE "run_forever"

\* The numbers published in the runs that vary everything else.
NumbersOfIssue == [i \in Issues |-> IF i = "A" THEN << 3, 1, 2 >> ELSE << 2, 2, 1 >>]

InitScheduler ==
    /\ file \in InitFiles
    /\ pc = "boot"
    /\ mode \in {"run_once", "run_forever"}
    /\ submit_only_once \in BOOLEAN
    /\ last_issue_id = None
    /\ loaded = None
    /\ feed \in Issues
    /\ chain \in { c \in PeriodSnapshot : c.period_id = 1 }
    /\ draw = None
    /\ period_snapshot = NoSnapshot
    /\ decision = None
    /\ result = None
    /\ okIssue = [i \in Issues |-> 0]
    /\ okPeriod = [p \in Periods |-> 0]
    /\ lost = None
    /\ saved = None
    /\ draw_numbers = << >>
    /\ tx_hash = None
    /\ submit_args = NoArgs
    /\ outcome = NoOutcome
    /\ calls = << >>
    /\ closed = 0
    /\ InitAside

\* A scheduler whose run_once or run_forever is called directly.
Init ==
    /\ InitScheduler
    /\ published = NumbersOfIssue
    /\ args_once = FALSE

\* ------------------------------------------------------------- environment
\* The feed publishes another result.
FeedPublishes ==
    /\ \E i \in Issues : i # feed /\ feed' = i
    /\ UNCHANGED << file, pc, settingsVars, last_issue_id, loaded, chain, published,
                    localVars, decision, result, countVars, lost, saved,
                    cycleVars, closed,
                    asideVars >>

\* The contract moves on: the current period advances through its lifecycle,
\* a result is recorded for it (result_set never goes back to false), or a
\* later period becomes the current one.
ChainSuccessors(c) ==
    { d \in PeriodSnapshot :
        /\ d # c
        /\ \/ /\ d.period_id = c.period_id
              /\ StatusValue(d.status) >= StatusValue(c.status)
              /\ (c.result_set => d.result_set)
           \/ d.period_id > c.period_id }

ChainMoves ==
    /\ \E d \in ChainSuccessors(chain) : chain' = d
    /\ UNCHANGED << file, pc, settingsVars, last_issue_id, loaded, feed, published,
                    localVars, decision, result, countVars, lost, saved,
                    cycleVars, closed,
                    asideVars >>

\* --------------------------------------------------------------- scheduler
\* OracleScheduler.__init__: load the state file once.
Construct ==
    /\ pc = "boot"
    /\ LET r == load_last_issue(file) IN
         IF r.raised
         THEN /\ pc' = "init_failed"
              /\ UNCHANGED << last_issue_id, loaded >>
         ELSE /\ pc' = "fetch"
              /\ last_issue_id' = r.value
              /\ loaded' = r.value
    /\ UNCHANGED << file, settingsVars, envVars, localVars, decision, result,
                    countVars, lost, saved, cycleVars, closed,
                    asideVars >>

\* Where control goes when _attempt_submission returns ret ("None" or
\* "SchedulerResult"): run_once goes to its finally clause, run_forever
\* leaves the loop or sleeps.
AfterReturn(ret) ==
    IF mode = "run_once" THEN "close"
    ELSE IF ret = None /\ submit_only_once THEN "exited"
    ELSE "sleep"

\* A run_forever that lets the exception of a cycle end the loop.
AfterRaise_leaves_loop == IF mode = "run_once" THEN "close" ELSE "exited"

\* A run_once without the finally clause: an exception leaves it at once.
AfterRaise_skips_close == IF mode = "run_once" THEN "exited" ELSE "sleep"

\* A run_forever that answers an exception by reading the chain again, in
\* the same cycle.
AfterRaise_retries_chain == IF mode = "run_once" THEN "close" ELSE "get_period"

\* Where control goes when _attempt_submission raises.
AfterRaise == IF mode = "run_once" THEN "close" ELSE "sleep"

\* A duplicate check that never fires.
IsDuplicate_never(last, issue_id) == FALSE

\* line 87: self._last_issue_id == draw.issue_id
IsDuplicate(last, issue_id) == last = issue_id

\* Period checks that forget result_set.
PeriodDecision_no_result_set(snap) ==
    IF snap.status # CLOSED THEN "Skip-NotReady" ELSE "Submit"

\* Period checks that wait only while the period is still selling.
PeriodDecision_only_selling(snap) ==
    IF snap.status = SELLING THEN "Skip-NotReady"
    ELSE IF snap.result_set THEN "Skip-AlreadySet"
    ELSE "Submit"

\* lines 92-105: what the cycle does with the snapshot it read.
PeriodDecision(snap) ==
    IF snap.status # CLOSED THEN "Skip-NotReady"
    ELSE IF snap.result_set THEN "Skip-AlreadySet"
    ELSE "Submit"

\* The cycle ends returning None after decision d.
ReturnNone(d) ==
    /\ decision' = d
    /\ result' = None
    /\ pc' = AfterReturn(None)
    /\ draw' = None
    /\ period_snapshot' = NoSnapshot
    /\ draw_numbers' = << >>
    /\ tx_hash' = None
    /\ outcome' = NoOutcome

\* A cycle that swallows the exception and returns None.
RaiseOut_swallowed ==
    /\ result' = None
    /\ pc' = AfterReturn(None)
    /\ draw' = None
    /\ period_snapshot' = NoSnapshot
    /\ draw_numbers' = << >>
    /\ tx_hash' = None
    /\ outcome' = NoOutcome

\* The cycle ends raising.
RaiseOut ==
    /\ result' = "raised"
    /\ pc' = AfterRaise
    /\ draw' = None
    /\ period_snapshot' = NoSnapshot
    /\ draw_numbers' = << >>
    /\ tx_hash' = None
    /\ outcome' = NoOutcome

\* lines 85-89: fetch_latest returns; the duplicate check.
FetchOk ==
    /\ pc = "fetch"
    /\ IF IsDuplicate(last_issue_id, feed)
       THEN ReturnNone("Skip-Duplicate")
       ELSE /\ draw' = feed
            /\ draw_numbers' = published[feed]
            /\ outcome' = NoOutcome
            /\ pc' = "get_period"
            /\ UNCHANGED << period_snapshot, tx_hash, decision, result >>
    /\ calls' = << "fetch_latest" >>
    /\ submit_args' = NoArgs
    /\ UNCHANGED << file, settingsVars, last_issue_id, loaded, envVars, countVars,
                    lost, saved, closed,
                    asideVars >>

\* line 85: fetch_latest raises.
FetchFail ==
    /\ pc = "fetch"
    /\ RaiseOut
    /\ calls' = << "fetch_latest" >>
    /\ submit_args' = NoArgs
    /\ UNCHANGED << file, settingsVars, last_issue_id, loaded, envVars, decision,
                    countVars, lost, saved, closed,
                    asideVars >>

\* lines 91-105: get_current_period returns; the period checks.
GetPeriodOk ==
    /\ pc = "get_period"
    /\ LET d == PeriodDecision(chain) IN
         IF d = "Submit"
         THEN /\ period_snapshot' = chain
              /\ pc' = "submit"
              /\ UNCHANGED << draw, draw_numbers, tx_hash, outcome, decision, result >>
         ELSE ReturnNone(d)
    /\ calls' = Append(calls, "get_current_period")
    /\ UNCHANGED << file, settingsVars, last_issue_id, loaded, envVars, countVars,
                    lost, saved, submit_args, closed,
                    asideVars >>

\* line 91: get_current_period raises.
GetPeriodFail ==
    /\ pc = "get_period"
    /\ RaiseOut
    /\ calls' = Append(calls, "get_current_period")
    /\ UNCHANGED << file, settingsVars, last_issue_id, loaded, envVars, decision,
                    countVars, lost, saved, submit_args, closed,
                    asideVars >>

\* The contract after a result was recorded for period p.
ChainAfterSubmit(c, p) ==
    IF c.period_id = p THEN [c EXCEPT !.result_set = TRUE] ELSE c

\* A call that names the period the contract is in when the call is made.
SubmitCall_current_period(ret) == [period_id |-> chain.period_id,
                                   numbers |-> sorted_numbers(draw_numbers),
                                   returned |-> ret]

\* lines 105-112: the arguments submit_result is called with, and what it
\* returned (None when it raised).
SubmitCall(ret) == [period_id |-> period_snapshot.period_id,
                    numbers |-> sorted_numbers(draw_numbers),
                    returned |-> ret]

\* lines 112-115: submit_result returns a transaction hash; the in-memory
\* last_issue_id is set.
SubmitOk ==
    /\ pc = "submit"
    /\ \E tx \in TxHashes : tx_hash' = tx /\ submit_args' = SubmitCall(tx)
    /\ calls' = Append(calls, "submit_result")
    /\ chain' = ChainAfterSubmit(chain, period_snapshot.period_id)
    /\ okIssue' = [okIssue EXCEPT ![draw] = Bump(@)]
    /\ okPeriod' = [okPeriod EXCEPT ![period_snapshot.period_id] = Bump(@)]
    /\ last_issue_id' = draw
    /\ decision' = "Submit"
    /\ pc' = "save_open"
    /\ UNCHANGED << file, settingsVars, loaded, feed, published, draw,
                    period_snapshot, draw_numbers, result, lost, saved, outcome,
                    closed,
                    asideVars >>

\* line 112: submit_result raises.
SubmitFail ==
    /\ pc = "submit"
    /\ submit_args' = SubmitCall(None)
    /\ calls' = Append(calls, "submit_result")
    /\ decision' = "Submit"
    /\ RaiseOut
    /\ UNCHANGED << file, settingsVars, last_issue_id, loaded, envVars, countVars,
                    lost, saved, closed,
                    asideVars >>

\* line 116, write_text: open(path, "w") creates or truncates the file.
SaveOpen ==
    /\ pc = "save_open"
    /\ file' = File(<< >>)
    /\ saved' = None
    /\ pc' = "save_write"
    /\ calls' = Append(calls, "save_last_issue")
    /\ UNCHANGED << settingsVars, last_issue_id, loaded, envVars, localVars,
                    decision, result, countVars, lost, submit_args, outcome,
                    closed,
                    asideVars >>

\* line 116, write_text: open raises OSError; the file is as it was.
SaveOpenFail ==
    /\ pc = "save_open"
    /\ RaiseOut
    /\ calls' = Append(calls, "save_last_issue")
    /\ UNCHANGED << file, settingsVars, last_issue_id, loaded, envVars, decision,
                    countVars, lost, saved, submit_args, closed,
                    asideVars >>

\* line 116, write_text: the payload is written and the file closed;
\* lines 118-122: the cycle returns a SchedulerResult.
SaveWrite ==
    /\ pc = "save_write"
    /\ file' = File(save_last_issue_text(draw))
    /\ saved' = draw
    /\ result' = "SchedulerResult"
    /\ outcome' = SchedulerResult(period_snapshot.period_id, draw, tx_hash)
    /\ pc' = AfterReturn("SchedulerResult")
    /\ draw' = None
    /\ period_snapshot' = NoSnapshot
    /\ draw_numbers' = << >>
    /\ tx_hash' = None
    /\ UNCHANGED << settingsVars, last_issue_id, loaded, envVars, decision,
                    countVars, lost, submit_args, calls, closed,
                    asideVars >>

\* line 116, write_text: the write raises OSError part-way.
SaveWriteFail ==
    /\ pc = "save_write"
    /\ \E text \in Prefixes(save_last_issue_text(draw)) : file' = File(text)
    /\ RaiseOut
    /\ UNCHANGED << settingsVars, last_issue_id, loaded, envVars, decision,
                    countVars, lost, saved, submit_args, calls, closed,
                    asideVars >>

\* run_once, lines 81-82: the finally clause closes the datasource, then
\* run_once returns or re-raises.
Close ==
    /\ pc = "close"
    /\ closed' = Bump(closed)
    /\ pc' = "exited"
    /\ UNCHANGED << file, settingsVars, last_issue_id, loaded, envVars, localVars,
                    decision, result, countVars, lost, saved, cycleVars,
                    asideVars >>

\* run_forever, line 76: asyncio.sleep(interval) returns; the next cycle
\* starts with no call made.
Sleep ==
    /\ pc = "sleep"
    /\ pc' = "fetch"
    /\ submit_args' = NoArgs
    /\ outcome' = NoOutcome
    /\ calls' = << >>
    /\ UNCHANGED << file, settingsVars, last_issue_id, loaded, envVars, localVars,
                    decision, result, countVars, lost, saved, closed, asideVars >>

\* --------------------------------------------------------- process lifetime
\* Whether a successful submit_result of this cycle is not yet on disk.
SubmittedUnsaved == pc \in {"save_open", "save_write"}

\* The process is terminated from outside, wherever it is.
Crash ==
    /\ pc \in Running
    /\ pc' = "crashed"
    /\ lost' = IF SubmittedUnsaved THEN draw ELSE lost
    /\ UNCHANGED << file, settingsVars, last_issue_id, loaded, envVars, localVars,
                    decision, result, countVars, saved, cycleVars, closed,
                    asideVars >>

\* A new process is started on the same state file.
Restart ==
    /\ pc \in Stopped
    /\ pc' = "boot"
    /\ last_issue_id' = None
    /\ loaded' = None
    /\ draw' = None
    /\ period_snapshot' = NoSnapshot
    /\ decision' = None
    /\ result' = None
    /\ okIssue' = [i \in Issues |-> 0]
    /\ okPeriod' = [p \in Periods |-> 0]
    /\ draw_numbers' = << >>
    /\ tx_hash' = None
    /\ submit_args' = NoArgs
    /\ outcome' = NoOutcome
    /\ calls' = << >>
    /\ closed' = 0
    /\ UNCHANGED << file, settingsVars, envVars, lost, saved,
                    asideVars >>

Next ==
    \/ FeedPublishes
    \/ ChainMoves
    \/ Construct
    \/ FetchOk
    \/ FetchFail
    \/ GetPeriodOk
    \/ GetPeriodFail
    \/ SubmitOk
    \/ SubmitFail
    \/ SaveOpen
    \/ SaveOpenFail
    \/ SaveWrite
    \/ SaveWriteFail
    \/ Close
    \/ Sleep
    \/ Crash
    \/ Restart

Spec == Init /\ [][Next]_vars

\* ------------------------------------------------- run_forever, fair cycles
\* A scheduler started with run_forever and submit_only_once off.  The
\* event loop runs every step that stays ready (construction, the sleep, the
\* two steps of the write), and a collaborator call that is made again and
\* again succeeds in the end.  The process is not terminated from outside.
\* It starts on a state file of each kind load_last_issue tells apart: none,
\* one it raises on, one holding a number, one holding an issue id.
LiveFiles ==
    { Missing,
      File(<< P("["), P("]") >>),
      File(<< P("{"), S("last_issue_id"), P(":"), N("#7"), P("}") >>),
      File(json_dumps_payload("A")) }

LiveInit ==
    /\ Init
    /\ mode = "run_forever"
    /\ ~submit_only_once
    /\ file \in LiveFiles

LiveNext ==
    \/ FeedPublishes
    \/ ChainMoves
    \/ Construct
    \/ FetchOk
    \/ FetchFail
    \/ GetPeriodOk
    \/ GetPeriodFail
    \/ SubmitOk
    \/ SubmitFail
    \/ SaveOpen
    \/ SaveOpenFail
    \/ SaveWrite
    \/ SaveWriteFail
    \/ Sleep

Fairness ==
    /\ WF_vars(Construct)
    /\ WF_vars(Sleep)
    /\ WF_vars(SaveOpen \/ SaveOpenFail)
    /\ WF_vars(SaveWrite \/ SaveWriteFail)
    /\ SF_vars(FetchOk)
    /\ SF_vars(GetPeriodOk)
    /\ SF_vars(SubmitOk)

LiveSpec == LiveInit /\ [][LiveNext]_vars /\ Fairness

\* ------------------------------------------ two schedulers, one state file
\* Two OracleScheduler instances run_forever over the same state file, feed
\* and contract.  Each is the scheduler above with its failures folded into
\* one step and its save taken as one write.

\* A scheduler that reads the state file again for each duplicate check.
Remembered_reloaded(i) == load_last_issue(file).value

\* line 87: the self._last_issue_id of instance i.
Remembered(i) == inst[i].last_issue_id

\* Instance i with field values changed.
InstWith(i, r) == [inst EXCEPT ![i] = r]

\* __init__ of instance i: the state file is loaded once.
InstConstruct(i) ==
    /\ inst[i].pc = "boot"
    /\ LET r == load_last_issue(file) IN
         inst' = InstWith(i, IF r.raised
                             THEN [inst[i] EXCEPT !.pc = "init_failed"]
                             ELSE [inst[i] EXCEPT !.pc = "fetch",
                                                  !.last_issue_id = r.value])
    /\ UNCHANGED << schedulerVars, envVars, backendVars >>

\* lines 85-89 in instance i.
InstFetch(i) ==
    /\ inst[i].pc = "fetch"
    /\ inst' = InstWith(i, IF IsDuplicate(Remembered(i), feed)
                            THEN [inst[i] EXCEPT !.pc = "sleep"]
                            ELSE [inst[i] EXCEPT !.pc = "get_period",
                                                 !.draw = feed])
    /\ UNCHANGED << schedulerVars, envVars, backendVars >>

\* lines 91-105 in instance i.
InstGetPeriod(i) ==
    /\ inst[i].pc = "get_period"
    /\ inst' = InstWith(i, IF PeriodDecision(chain) = "Submit"
                            THEN [inst[i] EXCEPT !.pc = "submit",
                                                 !.period_id = chain.period_id]
                            ELSE [inst[i] EXCEPT !.pc = "sleep", !.draw = None])
    /\ UNCHANGED << schedulerVars, envVars, backendVars >>

\* lines 112-115 in instance i: submit_result returns.
InstSubmit(i) ==
    /\ inst[i].pc = "submit"
    /\ chain' = ChainAfterSubmit(chain, inst[i].period_id)
    /\ inst' = InstWith(i, [inst[i] EXCEPT
                               !.pc = "save",
                               !.last_issue_id = inst[i].draw,
                               !.submitted = @ \cup {inst[i].draw}])
    /\ UNCHANGED << schedulerVars, feed, published, backendVars >>

\* line 116 in instance i: save_last_issue returns.
InstSave(i) ==
    /\ inst[i].pc = "save"
    /\ file' = File(save_last_issue_text(inst[i].draw))
    /\ inst' = InstWith(i, [inst[i] EXCEPT !.pc = "sleep", !.draw = None])
    /\ UNCHANGED << processVars, envVars, backendVars >>

\* A call of the cycle of instance i raises; run_forever logs it.
InstRaise(i) ==
    /\ inst[i].pc \in {"fetch", "get_period", "submit", "save"}
    /\ inst' = InstWith(i, [inst[i] EXCEPT !.pc = "sleep", !.draw = None])
    /\ UNCHANGED << schedulerVars, envVars, backendVars >>

\* line 76 in instance i.
InstSleep(i) ==
    /\ inst[i].pc = "sleep"
    /\ inst' = InstWith(i, [inst[i] EXCEPT !.pc = "fetch"])
    /\ UNCHANGED << schedulerVars, envVars, backendVars >>

TwoInit ==
    /\ Init
    /\ mode = "run_forever"
    /\ ~submit_only_once
    /\ file \in LiveFiles

TwoNext ==
    \/ FeedPublishes
    \/ ChainMoves
    \/ \E i \in Instances :
          \/ InstConstruct(i)
          \/ InstFetch(i)
          \/ InstGetPeriod(i)
          \/ InstSubmit(i)
          \/ InstSave(i)
          \/ InstRaise(i)
          \/ InstSleep(i)

TwoSpec == TwoInit /\ [][TwoNext]_vars

\* ------------------------------------------------- the backend's tickets
\* One ticket of the backend (src/backend): its row, the draws table and the
\* ticket the contract holds under token id TokenId.  matches and payout are
\* Optional columns: << >> is None, << n >> is n.

\* The id of a ticket minted on chain, and one made by secrets.token_hex.
TokenId == "1"
LocalId == "a1"

\* Numbers a ticket is bought with, and winning numbers an admin submits.
TicketNumbers == { << 1, 2 >>, << 3, 3 >> }
WinningNumbers == { << 1, 3 >>, << 2, 2 >> }

BASE_PAYOUT_UNIT == 100

\* The status argument callers give update_ticket_result (its default).
ResultStatuses == {"result_in"}

Range(s) == { s[k] : k \in DOMAIN s }

\* _compute_matches
compute_matches(numbers, winning_numbers) ==
    Cardinality(Range(numbers) \cap Range(winning_numbers))

\* TicketRepository.create_ticket
create_ticket(numbers, period_id) ==
    [exists |-> TRUE, id |-> LocalId, period_id |-> period_id,
     numbers |-> numbers, status |-> "pending", claimed |-> FALSE,
     matches |-> << >>, payout |-> << >>]

\* TicketRepository.sync_from_chain
sync_from_chain(t, ct) ==
    LET is_claimed == ct.claimed
        status == IF is_claimed THEN "claimed" ELSE "pending"
    IN  IF ~t.exists
        THEN [exists |-> TRUE, id |-> TokenId, period_id |-> ct.period_id,
              numbers |-> ct.numbers, status |-> status,
              claimed |-> is_claimed, matches |-> << >>, payout |-> << >>]
        ELSE [t EXCEPT !.period_id = ct.period_id,
                       !.numbers = ct.numbers,
                       !.claimed = is_claimed,
                       !.status = IF is_claimed THEN "claimed"
                                  ELSE IF t.status # "" THEN t.status
                                  ELSE "pending"]

\* TicketRepository.update_ticket_result
update_ticket_result(t, matches, payout, status) ==
    IF ~t.exists THEN t
    ELSE [t EXCEPT !.matches = << matches >>,
                   !.payout = << payout >>,
                   !.status = IF ~t.claimed THEN status ELSE @]

\* TicketRepository.mark_claimed
mark_claimed(t) ==
    IF ~t.exists THEN t
    ELSE [t EXCEPT !.claimed = TRUE, !.status = "claimed"]

\* TicketRepository.apply_draw, for the one ticket
apply_draw(t, period_id, winning_numbers) ==
    IF t.exists /\ t.period_id = period_id
    THEN LET matches == compute_matches(t.numbers, winning_numbers) IN
         [t EXCEPT !.matches = << matches >>,
                   !.payout = << IF matches > 0
                                 THEN matches * BASE_PAYOUT_UNIT ELSE 0 >>,
                   !.status = IF ~t.claimed THEN "result_in" ELSE @]
    ELSE t

\* DrawRepository.remove_draws_before, DrawRepository.set_draw
remove_draws_before(d, period_id) ==
    [p \in DOMAIN d |-> IF p < period_id THEN NoDraw ELSE d[p]]
set_draw(d, period_id, numbers) == [d EXCEPT ![period_id] = numbers]

\* TicketRepository.get_draw_numbers
get_draw_numbers(d, period_id) ==
    IF period_id \in DOMAIN d THEN d[period_id] ELSE NoDraw

\* What the backend's requests leave alone.
oracleVars == << schedulerVars, envVars, inst >>

\* The backend starts on empty tables; the oracle is not running.
TicketInit ==
    /\ Init
    /\ file = Missing
    /\ mode = "run_forever"
    /\ ~submit_only_once
    /\ feed = "A"
    /\ chain = [period_id |-> 1, status |-> SELLING, result_set |-> FALSE]

\* A buyer mints the ticket on chain (buy_ticket of the contract).
MintOnChain ==
    /\ ~chain_ticket.minted
    /\ \E p \in Periods, n \in TicketNumbers :
         chain_ticket' = [minted |-> TRUE, period_id |-> p, numbers |-> n,
                          claimed |-> FALSE]
    /\ UNCHANGED << oracleVars, ticket, draws, response, claims >>

\* The owner claims the prize on chain, not through the backend.
ClaimOnChain ==
    /\ chain_ticket.minted
    /\ ~chain_ticket.claimed
    /\ chain_ticket' = [chain_ticket EXCEPT !.claimed = TRUE]
    /\ UNCHANGED << oracleVars, ticket, draws, response, claims >>

\* POST /tickets
purchase_ticket ==
    /\ ~ticket.exists
    /\ \E p \in Periods, n \in TicketNumbers : ticket' = create_ticket(n, p)
    /\ response' = 201
    /\ UNCHANGED << oracleVars, draws, claims, chain_ticket >>

\* POST /tickets/<ticket_id>/claim
claim_ticket ==
    /\ UNCHANGED << oracleVars, draws >>
    /\ \E rpc_ok \in BOOLEAN :
      LET drawn == get_draw_numbers(draws, ticket.period_id)
          matches == IF ticket.matches # << >> THEN ticket.matches[1]
                     ELSE compute_matches(ticket.numbers, drawn)
          payout == IF ticket.payout # << >> THEN ticket.payout[1]
                    ELSE matches * BASE_PAYOUT_UNIT
      IN  IF ~ticket.exists
          THEN /\ response' = 404
               /\ UNCHANGED << ticket, claims, chain_ticket >>
          ELSE IF ticket.claimed \/ drawn = NoDraw
          THEN /\ response' = 400
               /\ UNCHANGED << ticket, claims, chain_ticket >>
          ELSE /\ ticket' = mark_claimed(
                      update_ticket_result(ticket, matches, payout, "result_in"))
               /\ chain_ticket' =
                      IF rpc_ok /\ ticket.id = TokenId /\ chain_ticket.minted
                      THEN [chain_ticket EXCEPT !.claimed = TRUE]
                      ELSE chain_ticket
               /\ response' = 200
               /\ claims' = Bump(claims)

\* POST /tickets/sync for the token id
sync_ticket_from_chain ==
    /\ ticket.exists => ticket.id = TokenId
    /\ IF ~chain_ticket.minted
       THEN response' = 500 /\ UNCHANGED ticket
       ELSE response' = 200 /\ ticket' = sync_from_chain(ticket, chain_ticket)
    /\ UNCHANGED << oracleVars, draws, claims, chain_ticket >>

\* POST /tickets/<ticket_id>/sync-claim for the token id
sync_claim_from_chain ==
    /\ ticket.exists => ticket.id = TokenId
    /\ IF ~chain_ticket.minted
       THEN response' = 500 /\ UNCHANGED ticket
       ELSE IF ~chain_ticket.claimed
       THEN response' = 400 /\ UNCHANGED ticket
       ELSE response' = 200 /\ ticket' = sync_from_chain(ticket, chain_ticket)
    /\ UNCHANGED << oracleVars, draws, claims, chain_ticket >>

\* POST /admin/api/draws, once the chain calls have returned
submit_draw ==
    /\ \E target_period \in Periods, winning_numbers \in WinningNumbers :
         /\ draws' = set_draw(remove_draws_before(draws, target_period),
                              target_period, winning_numbers)
         /\ ticket' = apply_draw(ticket, target_period, winning_numbers)
    /\ response' = 200
    /\ UNCHANGED << oracleVars, claims, chain_ticket >>

TicketNext ==
    \/ MintOnChain
    \/ ClaimOnChain
    \/ purchase_ticket
    \/ claim_ticket
    \/ sync_ticket_from_chain
    \/ sync_claim_from_chain
    \/ submit_draw

TicketSpec == TicketInit /\ [][TicketNext]_vars

\* The repository's operations called one after another on the ticket.
RepoCreate ==
    /\ ~ticket.exists
    /\ \E p \in Periods, n \in TicketNumbers : ticket' = create_ticket(n, p)
    /\ UNCHANGED << oracleVars, draws, response, claims, chain_ticket >>

RepoSync ==
    /\ ticket.exists => ticket.id = TokenId
    /\ \E p \in Periods, n \in TicketNumbers, c \in BOOLEAN :
         ticket' = sync_from_chain(ticket, [minted |-> TRUE, period_id |-> p,
                                            numbers |-> n, claimed |-> c])
    /\ UNCHANGED << oracleVars, draws, response, claims, chain_ticket >>

RepoUpdateResult ==
    /\ ticket.exists
    /\ \E m \in 0..2, status \in ResultStatuses :
         ticket' = update_ticket_result(ticket, m, m * BASE_PAYOUT_UNIT, status)
    /\ UNCHANGED << oracleVars, draws, response, claims, chain_ticket >>

RepoMarkClaimed ==
    /\ ticket.exists
    /\ ticket' = mark_claimed(ticket)
    /\ UNCHANGED << oracleVars, draws, response, claims, chain_ticket >>

RepoApplyDraw ==
    /\ \E p \in Periods, w \in WinningNumbers : ticket' = apply_draw(ticket, p, w)
    /\ UNCHANGED << oracleVars, draws, response, claims, chain_ticket >>

RepoNext ==
    \/ RepoCreate
    \/ RepoSync
    \/ RepoUpdateResult
    \/ RepoMarkClaimed
    \/ RepoApplyDraw

RepoSpec == TicketInit /\ [][RepoNext]_vars

\* ------------------------------------------------------ the service entry
\* A scheduler started through service.run: the flag and the setting choose
\* the method.
ServiceInit ==
    /\ InitScheduler
    /\ published = NumbersOfIssue
    /\ args_once \in BOOLEAN
    /\ mode = run_entry(args_once, submit_only_once)

ServiceSpec == ServiceInit /\ [][Next]_vars

\* ------------------------------------------------- the numbers of one draw
\* A scheduler started on no state file while period 1 is Closed without a
\* result and the feed publishes issue "A" with any numbers in any order.
\* The feed and the contract stay as they are and the process is not
\* terminated from outside.
NumbersInit ==
    /\ InitScheduler
    /\ file = Missing
    /\ feed = "A"
    /\ chain = [period_id |-> 1, status |-> CLOSED, result_set |-> FALSE]
    /\ \E numbers \in NumberSeqs :
           published = [NumbersOfIssue EXCEPT !["A"] = numbers]
    /\ args_once = FALSE

NumbersNext ==
    \/ Construct
    \/ FetchOk
    \/ FetchFail
    \/ GetPeriodOk
    \/ GetPeriodFail
    \/ SubmitOk
    \/ SubmitFail
    \/ SaveOpen
    \/ SaveOpenFail
    \/ SaveWrite
    \/ SaveWriteFail
    \/ Close
    \/ Sleep

NumbersSpec == NumbersInit /\ [][NumbersNext]_vars

\* ------------------------------------------------------------------ claims
\* Issue ids submitted successfully by the running process.
SubmittedIssues == { i \in Issues : okIssue[i] >= 1 }

\* A scheduler was constructed and has finished no cycle yet.
Fresh == pc = "fetch" /\ decision = None /\ result = None

\* What load_last_issue reads from the state file as it is now.
Persisted == load_last_issue(file)

\* The state file holds a last_issue_id record as save_last_issue writes it.
ValidRecord(f) == f.exists /\ \E i \in Issues : f.text = json_dumps_payload(i)

\* C1: over any sequence of cycles of one scheduler instance, failed and
\* retried cycles included, at most one submit_result call succeeds for any
\* period id (the chain reporting result_set once a submission succeeded).
C1_OneSubmissionPerPeriod == \A p \in Periods : okPeriod[p] <= 1

\* C1 witness: the instance submitted for the current period, met that
\* period again in a later cycle and skipped it as already set.
C1_Witness ==
    /\ okPeriod[chain.period_id] = 1
    /\ decision = "Skip-AlreadySet"
    /\ pc = "sleep"

\* C2: within one process lifetime no issue id is passed to a successful
\* submit_result call more than once, whatever order the feed publishes in.
C2_NoIssueSubmittedTwice == \A i \in Issues : okIssue[i] <= 1

\* C3: an issue whose submit_result succeeded in a process that terminated
\* before save_last_issue wrote it is never submitted again by a scheduler
\* restarted on the same state file.
C3_LostIssueNeverResubmitted == ~(SubmittedUnsaved /\ draw = lost)

\* The submission for period p is due and a scheduler is there to make it:
\* the feed's issue differs from last_issue_id, period p is current, Closed
\* and without a result, and the scheduler's constructor did not raise.
Due(p) ==
    /\ pc # "init_failed"
    /\ feed # last_issue_id
    /\ chain.period_id = p
    /\ chain.status = CLOSED
    /\ ~chain.result_set

\* C4: in run_forever with submit_only_once off, if from some point on the
\* submission for period p stays due, a submit_result call for p succeeds:
\* the loop never stops polling after failed or skipped cycles.
C4_DueSubmissionSucceeds ==
    \A p \in Periods : []<>(~Due(p) \/ okPeriod[p] >= 1)

\* C4 witness: a submission succeeded in a cycle that followed a failed one.
C4_Witness ==
    /\ pc = "save_open"
    /\ result = "raised"
    /\ okPeriod[chain.period_id] = 1

\* C5: in every state of a constructed scheduler the in-memory and the
\* persisted last_issue_id are each the value loaded at construction or an
\* issue id whose submit_result returned success, and the state file changes
\* only after submit_result returned success in the same cycle.
C5_LastIssueLoadedOrSubmitted ==
    pc \in (Running \ {"boot"}) =>
        /\ last_issue_id \in ({loaded} \cup SubmittedIssues)
        /\ ~Persisted.raised
        /\ Persisted.value \in ({loaded} \cup SubmittedIssues)

\* The part of C5 about the order of writes: the state file changes only in
\* the save that follows a successful submit_result of the same cycle.
FileWrittenOnlyAfterSubmit ==
    [][ file' # file => (SubmittedUnsaved /\ okIssue[draw] >= 1) ]_vars

\* C6: save is atomic for a reader: whatever point of save(new) over a file
\* holding old the process is terminated at, the file reads as old or as
\* new, so no step of save leaves it reading as anything else.
C6_SaveAtomic ==
    [][ (pc \in {"save_open", "save_write"} /\ file' # file
           /\ load_last_issue(file).value \in Issues)
        => load_last_issue(file') \in {load_last_issue(file), Returned(draw)} ]_vars

\* C7: once save(x) has returned, load on the same file returns exactly x,
\* also after the process terminated and for a fresh scheduler constructed
\* on the file; after several saves that is the most recently saved id.
C7_LoadReturnsLastSaved ==
    saved # None =>
        /\ Persisted = Returned(saved)
        /\ (Fresh => last_issue_id = saved)

\* C7 witness: a process constructed on a file that an earlier save wrote
\* ("B" is never in a file a scheduler is first started on) saved "A" and
\* was then terminated.
C7_Witness ==
    /\ pc = "crashed"
    /\ loaded = "B"
    /\ saved = "A"

\* C8: load returns absent and never raises for every file content that is
\* not a valid last_issue_id record.
C8_LoadAbsentNeverRaises ==
    /\ pc # "init_failed"
    /\ (Fresh /\ ~ValidRecord(file) => last_issue_id = None)

\* C9: when last_issue_id equals the fetched issue id the cycle decides
\* Skip-Duplicate whatever the chain holds: no chain read, no submit_result,
\* no change of last_issue_id, of the state file or of the chain.
C9_DuplicateSkipped ==
    [][ (FetchOk /\ last_issue_id # None /\ last_issue_id = feed)
        => /\ decision' = "Skip-Duplicate"
           /\ result' = None
           /\ pc' \in {"close", "sleep", "exited"}
           /\ UNCHANGED << last_issue_id, file, chain, okIssue, okPeriod >> ]_vars

\* C9 witness: a duplicate was skipped while the current period, not the
\* one submitted before, is Closed without a result.
C9_Witness ==
    /\ decision = "Skip-Duplicate"
    /\ result = None
    /\ last_issue_id = feed
    /\ okIssue[feed] = 1
    /\ chain.status = CLOSED
    /\ ~chain.result_set
    /\ okPeriod[chain.period_id] = 0
    /\ pc = "sleep"

\* C10: for a snapshot whose status is not Closed the cycle decides
\* Skip-NotReady, whatever result_set and the draw are: submit_result is not
\* called, the cycle returns None and last_issue_id is unchanged.
C10_NotClosedSkipped ==
    [][ (GetPeriodOk /\ chain.status # CLOSED)
        => /\ decision' = "Skip-NotReady"
           /\ result' = None
           /\ pc' \in {"close", "sleep", "exited"}
           /\ UNCHANGED << last_issue_id, file, chain, okIssue, okPeriod >> ]_vars

\* C10 witness: a cycle skipped a period that is past Closed and has no
\* result recorded.
C10_Witness ==
    /\ decision = "Skip-NotReady"
    /\ result = None
    /\ chain.status \in {RESULT_IN, SETTLED}
    /\ ~chain.result_set
    /\ pc \in {"close", "sleep"}

\* C11: for a snapshot that is Closed with result_set true the cycle decides
\* Skip-AlreadySet: submit_result is not called, the cycle returns None and
\* last_issue_id is unchanged.
C11_AlreadySetSkipped ==
    [][ (GetPeriodOk /\ chain.status = CLOSED /\ chain.result_set)
        => /\ decision' = "Skip-AlreadySet"
           /\ result' = None
           /\ outcome' = NoOutcome
           /\ submit_args' = NoArgs
           /\ calls' = << "fetch_latest", "get_current_period" >>
           /\ pc' \in {"close", "sleep", "exited"}
           /\ UNCHANGED << last_issue_id, file, chain, okIssue, okPeriod >> ]_vars

\* C11 witness: a cycle skipped a Closed period whose result someone else
\* recorded, for a draw this scheduler had not submitted.
C11_Witness ==
    /\ decision = "Skip-AlreadySet"
    /\ result = None
    /\ chain.status = CLOSED
    /\ chain.result_set
    /\ okPeriod[chain.period_id] = 0
    /\ last_issue_id # feed
    /\ pc \in {"close", "sleep"}

\* The collaborator calls of a cycle that went through to the save.
FullCycle == << "fetch_latest", "get_current_period", "submit_result",
                "save_last_issue" >>

\* The last cycle has ended (the process was not terminated inside it) and
\* its submit_result returned a transaction hash.
SubmittedCycleEnded ==
    /\ pc \in {"close", "sleep", "exited"}
    /\ submit_args.returned # None

\* How often a cycle called submit_result.
SubmitCalls == Cardinality({ k \in DOMAIN calls : calls[k] = "submit_result" })

\* Between a successful submit_result and the end of its cycle: the call was
\* the only one, with the period id of the snapshot, and the in-memory
\* last_issue_id is the issue of the draw.
SubmittedThisCycle ==
    pc \in {"save_open", "save_write"} =>
        /\ SubmitCalls = 1
        /\ submit_args.period_id = period_snapshot.period_id
        /\ period_snapshot.status = CLOSED /\ ~period_snapshot.result_set
        /\ submit_args.returned = tx_hash
        /\ tx_hash \in TxHashes
        /\ last_issue_id = draw
        /\ draw \in Issues

\* A cycle whose draw passed the duplicate check and whose snapshot is
\* Closed without a result goes on to call submit_result.
SubmitIsCalled ==
    [][ (GetPeriodOk /\ chain.status = CLOSED /\ ~chain.result_set)
        => /\ pc' = "submit"
           /\ period_snapshot' = chain
           /\ draw' # last_issue_id
           /\ SubmitCalls' = 0 ]_vars

\* The outcome a cycle returned carries the period id submit_result was
\* called with, the issue id now in memory and the hash the call returned.
OutcomeOfSubmit ==
    /\ result = "SchedulerResult"
    /\ outcome = SchedulerResult(submit_args.period_id, last_issue_id,
                                 submit_args.returned)
    /\ Persisted = Returned(last_issue_id)

\* C12: when the draw is new and the snapshot Closed without a result the
\* cycle calls submit_result exactly once with the snapshot's period id;
\* on success (the call and the save that follows it returned) the cycle
\* returns an outcome with that period id, the draw's issue id and the hash
\* the call returned, and the in-memory and the persisted last_issue_id are
\* both the draw's issue id.
C12_SubmitAndSaveReturnOutcome ==
    /\ []SubmittedThisCycle
    /\ SubmitIsCalled
    /\ [](SubmittedCycleEnded => SubmitCalls = 1 /\ last_issue_id \in Issues)
    /\ [](SubmittedCycleEnded /\ calls = FullCycle /\ result # "raised"
            => OutcomeOfSubmit)

\* C12 witness: a run_forever cycle that started with another issue id in
\* memory submitted for period 2 and returned its outcome.
C12_Witness ==
    /\ pc = "sleep"
    /\ loaded = "A"
    /\ outcome = SchedulerResult(2, "B", "0x123")
    /\ last_issue_id = "B"
    /\ Persisted = Returned("B")
    /\ calls = FullCycle

\* How often x occurs in the sequence s.
Occurrences(x, s) == Cardinality({ k \in DOMAIN s : s[k] = x })

\* s and t hold the same numbers, each as often.
SameMultiset(s, t) ==
    /\ Len(s) = Len(t)
    /\ \A k \in DOMAIN s : Occurrences(s[k], s) = Occurrences(s[k], t)

\* s is in non-decreasing order.
Ascending(s) == \A j, k \in DOMAIN s : j < k => s[j] <= s[k]

\* C13: the numbers passed to submit_result are the ascending-sorted
\* permutation of the numbers the feed published with the draw: the same
\* multiset, in non-decreasing order, and so the same for every order the
\* feed can report those numbers in.
C13_NumbersSortedPermutation ==
    [][ (SubmitOk \/ SubmitFail)
        => /\ draw_numbers = published[draw]
           /\ Ascending(submit_args'.numbers)
           /\ SameMultiset(submit_args'.numbers, published[draw])
           /\ \A other \in NumberSeqs :
                  SameMultiset(other, published[draw])
                      => sorted_numbers(other) = submit_args'.numbers ]_vars

\* C13 witness: the feed published its numbers out of order, one of them
\* twice, and submit_result was called with them in order.
C13_Witness ==
    /\ published[feed] = << 3, 1, 3 >>
    /\ submit_args.numbers = << 1, 3, 3 >>
    /\ submit_args.returned \in TxHashes
    /\ pc = "save_open"

\* C14: run_once calls the feed's close() exactly once, after its single
\* cycle has finished, on every path: not before the cycle's end, and once
\* by the time run_once has returned or raised, whichever call raised.
C14_ClosedOnceAfterCycle ==
    mode = "run_once" =>
        /\ pc \in {"boot", "fetch", "get_period", "submit", "save_open",
                    "save_write", "close", "init_failed"} => closed = 0
        /\ pc = "close" => calls # << >> /\ draw = None
        /\ pc = "exited" => closed = 1 /\ calls # << >>
        /\ closed <= 1

\* C14 witness: run_once raised what the save raised, after closing the
\* feed once.
C14_Witness ==
    /\ mode = "run_once"
    /\ pc = "exited"
    /\ closed = 1
    /\ result = "raised"
    /\ calls = FullCycle

\* A collaborator call of the cycle raises.
CycleRaises ==
    FetchFail \/ GetPeriodFail \/ SubmitFail \/ SaveOpenFail \/ SaveWriteFail

\* C15: in run_forever an exception from any collaborator call never ends
\* the loop: the loop sleeps, and after the sleep it starts another cycle;
\* run_forever returns only by the submit-only-once exit (being stopped
\* from outside is the other end of the loop).
C15_ExceptionKeepsLoop ==
    /\ [][ (mode = "run_forever" /\ CycleRaises)
           => pc' = "sleep" /\ result' = "raised" ]_vars
    /\ [][ (pc = "sleep" /\ pc' \notin {"sleep", "crashed"})
           => pc' = "fetch" ]_vars
    /\ [](mode = "run_forever" /\ pc = "exited"
            => submit_only_once /\ result = None)

\* C15 witness: with submit-only-once on, the save raised after a
\* successful submit_result, and the loop is in its next cycle.
C15_Witness ==
    /\ mode = "run_forever"
    /\ submit_only_once
    /\ pc = "get_period"
    /\ result = "raised"
    /\ okIssue["A"] = 1
    /\ draw = "B"

\* C16: with submit-only-once on, run_forever returns right after the first
\* cycle whose decision is not Skip-Duplicate, be it Submit, Skip-NotReady
\* or Skip-AlreadySet: the loop never sleeps after such a cycle, only after
\* a cycle that raised or decided Skip-Duplicate.
C16_ExitsAfterFirstFreshCycle ==
    (mode = "run_forever" /\ submit_only_once /\ pc = "sleep")
        => (result = "raised" \/ decision = "Skip-Duplicate")

\* C17: with submit-only-once on, a cycle that decides Skip-Duplicate does
\* not end run_forever: the loop goes to sleep, to poll again.
C17_DuplicateKeepsLoop ==
    [][ (mode = "run_forever" /\ submit_only_once /\ FetchOk
           /\ IsDuplicate(last_issue_id, feed))
        => pc' = "sleep" ]_vars

\* C18: with submit-only-once on, run_forever exits after the cycle that
\* submitted successfully, so one run makes at most one successful
\* submit_result call.
C18_AtMostOneSubmit ==
    (mode = "run_forever" /\ submit_only_once) =>
        \A i, j \in Issues :
            (okIssue[i] >= 1 /\ okIssue[j] >= 1) => (i = j /\ okIssue[i] = 1)

\* C19: after a cycle submitted a result successfully, every later cycle of
\* the same scheduler that fetches a result with that issue id decides
\* Skip-Duplicate and goes no further.
C19_SubmittedIssueSkipped ==
    [][ (FetchOk /\ okIssue[feed] >= 1)
        => decision' = "Skip-Duplicate" /\ pc' # "get_period" ]_vars

\* C20: when the save fails after submit_result succeeded the failure is
\* not raised out of the cycle: the cycle still returns the outcome with
\* the transaction hash submit_result returned.
C20_SaveFailureNotRaised ==
    SubmittedCycleEnded
        => result = "SchedulerResult" /\ outcome.tx_hash = submit_args.returned

\* Positions inside a cycle of _attempt_submission.
InCycle == {"fetch", "get_period", "submit", "save_open", "save_write"}

\* C21: a stop signal that arrives while a run_forever cycle is in
\* progress takes effect only at the next sleep: the process is never
\* stopped inside a cycle, so a submit_result in flight and the
\* last_issue_id update and save after it complete first.
C21_StopOnlyAtSleep ==
    [][ (mode = "run_forever" /\ pc \in InCycle) => pc' # "crashed" ]_vars

\* A boundary between cycles: run_forever sleeps, or run_once is returning.
AtBoundary ==
    \/ mode = "run_forever" /\ pc = "sleep"
    \/ mode = "run_once" /\ pc \in {"close", "exited"}

\* The issue id in memory was submitted by this process and the last save
\* that returned did not write it: its save failed.
SaveGap == last_issue_id \in SubmittedIssues /\ saved # last_issue_id

\* C22: at every sleep of run_forever and every return of run_once the
\* in-memory last_issue_id is what the state file holds, except once a save
\* has failed after a successful submit_result.
C22_MemoryMatchesFile ==
    (AtBoundary /\ ~SaveGap) => Persisted = Returned(last_issue_id)

\* C22 witness: a process that loaded "A" has since submitted and saved
\* twice and sleeps with the later issue id in memory and on file.
C22_Witness ==
    /\ pc = "sleep"
    /\ loaded = "A"
    /\ okIssue["B"] = 1
    /\ okIssue["A"] = 1
    /\ last_issue_id = "A"
    /\ saved = "A"
    /\ result = "SchedulerResult"

\* C24: when the fetched issue id equals the in-memory last_issue_id the
\* cycle ends without get_current_period: a cycle that is at the chain
\* read holds a draw that differs from last_issue_id, and a cycle that
\* ended with Skip-Duplicate called fetch_latest only.
C24_DuplicateBeforeChainRead ==
    /\ [](pc = "get_period" => draw # last_issue_id)
    /\ [][ (FetchOk /\ last_issue_id = feed)
           => /\ calls' = << "fetch_latest" >>
              /\ pc' \notin InCycle ]_vars

\* C24 witness: a run_once on a state file holding the published issue id
\* returned after fetch_latest alone, the current period being Closed
\* without a result.
C24_Witness ==
    /\ mode = "run_once"
    /\ pc = "exited"
    /\ decision = "Skip-Duplicate"
    /\ calls = << "fetch_latest" >>
    /\ loaded = feed
    /\ chain.status = CLOSED
    /\ ~chain.result_set

\* C25: within one cycle the collaborator calls are made at most once
\* each, in the order fetch_latest, get_current_period, submit_result,
\* save_last_issue; a cycle that ended called fetch_latest, and a
\* submit_result that raised is the cycle's last call.
C25_CallsOnceInOrder ==
    /\ [](\E n \in 0..Len(FullCycle) : calls = SubSeq(FullCycle, 1, n))
    /\ [](pc \in {"close", "sleep"} => Len(calls) >= 1)
    /\ [][ SubmitFail
           => /\ calls' = SubSeq(FullCycle, 1, 3)
              /\ pc' \notin InCycle ]_vars

\* C25 witness: submit_result raised in a run_forever cycle, which ended
\* there.
C25_Witness ==
    /\ pc = "sleep"
    /\ result = "raised"
    /\ calls = SubSeq(FullCycle, 1, 3)
    /\ submit_args.returned = None
    /\ submit_args.period_id = 2

\* fetch_latest, get_current_period or submit_result raises.
CallRaises == FetchFail \/ GetPeriodFail \/ SubmitFail

\* C26: when fetch_latest, get_current_period or submit_result raises the
\* cycle ends there: no later call is made, the in-memory last_issue_id and
\* the state file are as they were, and run_once raises to its caller.
C26_FailureAbortsCycle ==
    /\ [][ CallRaises
           => /\ UNCHANGED << last_issue_id, file, okIssue, okPeriod >>
              /\ result' = "raised"
              /\ pc' \notin InCycle
              /\ calls' \in {SubSeq(FullCycle, 1, n) : n \in 1..3} ]_vars
    /\ [][ (mode = "run_once" /\ pc = "close")
           => UNCHANGED << result, calls, last_issue_id, file >> ]_vars

\* C26 witness: run_once raised what get_current_period raised, on a
\* state file that holds another issue id than the one fetched.
C26_Witness ==
    /\ mode = "run_once"
    /\ pc = "exited"
    /\ result = "raised"
    /\ calls = SubSeq(FullCycle, 1, 2)
    /\ loaded = "A"
    /\ last_issue_id = "A"
    /\ Persisted = Returned("A")
    /\ feed = "B"

\* C28: after a cycle in which submit_result succeeded and the save failed
\* the running scheduler still takes that issue id as submitted: every
\* later cycle that fetches it ends with Skip-Duplicate and no chain call.
\* Taken where no state file exists: every save so far failed on opening
\* it, the one of each issue this process submitted among them.
C28_UnsavedIssueSkipped ==
    [][ (FetchOk /\ okIssue[feed] >= 1 /\ ~file.exists)
        => /\ decision' = "Skip-Duplicate"
           /\ calls' = << "fetch_latest" >>
           /\ pc' \notin InCycle ]_vars

\* C29: through service.run, run_forever is entered only with both the
\* --once flag and submit_only_once off; with either on the service calls
\* run_once, which runs one cycle and never sleeps, so run_forever never
\* returns by its submit-once exit.
C29_EntryPointChoosesMethod ==
    /\ mode = "run_forever" => ~args_once /\ ~submit_only_once
    /\ (args_once \/ submit_only_once) =>
           /\ mode = "run_once"
           /\ pc # "sleep"
           /\ pc = "exited" => Len(calls) >= 1 /\ closed = 1
    /\ ~(mode = "run_forever" /\ pc = "exited")

\* C29 witness: with submit_only_once on and no --once flag the service
\* ran one cycle through run_once, which submitted and returned.
C29_Witness ==
    /\ submit_only_once
    /\ ~args_once
    /\ mode = "run_once"
    /\ pc = "exited"
    /\ result = "SchedulerResult"
    /\ closed = 1

\* C27: each of two schedulers over one state file loads last_issue_id
\* once, at construction, and never sees the other's save: its
\* last_issue_id changes only in its own construction and its own submit,
\* and a draw it does not hold in memory passes its duplicate check
\* whatever the state file holds by then.  (That both can then submit the
\* same issue id is the witness.)
C27_InstancesDoNotSeeSaves ==
    [][ \A i \in Instances :
          /\ inst'[i].last_issue_id # inst[i].last_issue_id
               => /\ inst[i].pc \in {"boot", "submit"}
                  /\ inst'[i].pc # inst[i].pc
          /\ (inst[i].pc = "fetch" /\ inst'[i].pc \notin {"fetch", "sleep"})
               => inst'[i].draw = feed
          /\ (InstFetch(i) /\ inst[i].last_issue_id # feed)
               => inst'[i].pc = "get_period" ]_vars

\* C27 witness: both schedulers have called submit_result successfully for
\* issue "A", the second one after the first had saved it.
C27_Witness ==
    /\ "A" \in inst[1].submitted
    /\ "A" \in inst[2].submitted
    /\ inst[1].pc = "sleep"
    /\ inst[2].pc = "save"
    /\ inst[2].draw = "A"
    /\ Persisted = Returned("A")

\* C23: a ticket is claimed at most once through the claim endpoint: the
\* endpoint answers at most one claim of the ticket with success, a claim of
\* a ticket whose claimed flag is set answers 400 and changes nothing of the
\* ticket, and a claim answered with success leaves claimed = true and
\* status 'claimed'.
C23_ClaimedAtMostOnce ==
    /\ [](claims <= 1)
    /\ [][ (claim_ticket /\ ticket.exists /\ ticket.claimed)
             => response' = 400 /\ ticket' = ticket /\ claims' = claims ]_vars
    /\ [][ (claim_ticket /\ claims' # claims)
             => ticket'.claimed /\ ticket'.status = "claimed" ]_vars

\* C30: after any sequence of repository operations the ticket's status is
\* 'claimed' exactly when its claimed flag is true.
C30_StatusIffClaimed ==
    ticket.exists => (ticket.status = "claimed" <=> ticket.claimed)

====
